---- MODULE Spec2Model ----
(***************************************************************************)
(* Model of src/env.py: the helpers get_env and get_size and the report    *)
(* routine show_env.                                                       *)
(*                                                                         *)
(* Encoding of Python values:                                              *)
(*   - a str is a TLA+ string; concatenation is \o, len() is Len;          *)
(*   - None is the empty tuple << >> and a present value v is <<v>>;       *)
(*   - a number that only ever reaches the report through str() is kept    *)
(*     as the string str() gives for it;                                   *)
(*   - a byte count is a record [m, e] standing for m * 1024^e, so that    *)
(*     counts of 1024^6 and more, and the fractions that "bytes /= factor" *)
(*     produces, are exact within the 32-bit integers of TLC;              *)
(*   - the grave accent cannot occur in a TLA+ string literal, the fence   *)
(*     marker of three grave accents is written ''' here.                  *)
(***************************************************************************)
EXTENDS Integers, Sequences, FiniteSets, TLC

VARIABLES
    pc,               \* position of show_env, or of the helper harness
    raised,           \* exception that left show_env uncaught, or NoExc
    show_nvidia_smi,  \* argument of show_env
    sys_platform,     \* sys.platform of the host
    importable,       \* names of the optional modules that can be imported
    environ,          \* os.environ: function from the set names to values
    rep,              \* local rep: sequence of <<label, optional value>>
    opt_mods,         \* local opt_mods
    have_nvidia_smi,  \* local have_nvidia_smi
    result,           \* local result: last completed subprocess.run
    smi,              \* local smi: decoded output of the probe
    gpu_total_mem,    \* local gpu_total_mem
    nvidia_gpu_cnt,   \* local nvidia_gpu_cnt
    torch_gpu_cnt,    \* local torch_gpu_cnt
    keylen,           \* local keylen
    out,              \* standard output: one element per print call
    arg,              \* argument of the helper under call
    ret               \* value the helper returned

vars == <<pc, raised, show_nvidia_smi, sys_platform, importable, environ, rep,
          opt_mods, have_nvidia_smi, result, smi, gpu_total_mem,
          nvidia_gpu_cnt, torch_gpu_cnt, keylen, out, arg, ret>>

None == << >>

Some(v) == <<v>>

NoExc == "none"

NoResult == [returncode |-> -1, stdout |-> << >>]

\* ---------------------------------------------------------------------------
\* bounds
\* ---------------------------------------------------------------------------

\* largest power of 1024 an input byte count is multiplied by
MaxShift == 6

\* largest device count the framework reports
MaxDev == 2

\* largest number of lines in the memory query's output
MaxMemLines == 2

\* ---------------------------------------------------------------------------
\* get_env (src/env.py:14-17)
\* ---------------------------------------------------------------------------

\* os.environ.get(name, '')
environ_get(name, default) ==
    IF name \in DOMAIN environ THEN environ[name] ELSE default

get_env_noFallback(name) == environ_get(name, "")

get_env(name) ==
    LET res == environ_get(name, "")
    IN  IF Len(res) > 0 THEN res ELSE "Unknown"

\* ---------------------------------------------------------------------------
\* get_size (src/env.py:19-30)
\* ---------------------------------------------------------------------------

factor == 1024

Units == <<"", "K", "M", "G", "T", "P">>

RECURSIVE Pow(_, _)
Pow(b, n) == IF n = 0 THEN 1 ELSE b * Pow(b, n - 1)

\* bytes < factor, for bytes = m * 1024^e with 0 <= m < 2^31
LessThanFactor(bytes) ==
    IF bytes.e >= 1 THEN bytes.m = 0
    ELSE IF 1 - bytes.e >= 4 THEN TRUE
    ELSE bytes.m < Pow(factor, 1 - bytes.e)

\* bytes /= factor
DivFactor(bytes) == [m |-> bytes.m, e |-> bytes.e - 1]

TwoDigits(h) == IF h < 10 THEN "0" \o ToString(h) ELSE ToString(h)

\* value in hundredths of m / 1024^d (1 <= d <= 3), rounded half to even as
\* the float formatting does; the division is done in two steps of 1024 to
\* stay within 32 bits
Hundredths(m, d) ==
    LET Dhi  == Pow(factor, d - 1)
        D    == Dhi * factor
        q    == m \div D
        r    == m % D
        rhi  == r \div factor
        rlo  == r % factor
        A    == 100 * rhi + ((100 * rlo) \div factor)
        s    == (100 * rlo) % factor
        F    == A \div Dhi
        rem  == (A % Dhi) * factor + s
        half == Dhi * (factor \div 2)
        up   == rem > half \/ (rem = half /\ F % 2 = 1)
    IN  q * 100 + F + (IF up THEN 1 ELSE 0)

\* f"{bytes:.2f}" for 0 <= bytes < factor (then e >= 1 only with m = 0, and
\* d >= 4 only with a value below 2^31 / 2^40, which rounds to 0.00)
Format2f(bytes) ==
    LET d == 0 - bytes.e
        h == IF bytes.e >= 1 THEN 0
             ELSE IF d = 0 THEN bytes.m * 100
             ELSE IF d >= 4 THEN 0
             ELSE Hundredths(bytes.m, d)
    IN  ToString(h \div 100) \o "." \o TwoDigits(h % 100)

RECURSIVE get_size_loop(_, _, _)
get_size_loop(bytes, i, suffix) ==
    IF i > Len(Units) THEN None
    ELSE IF LessThanFactor(bytes)
         THEN Some(Format2f(bytes) \o Units[i] \o suffix)
         ELSE get_size_loop(DivFactor(bytes), i + 1, suffix)

get_size(bytes, suffix) == get_size_loop(bytes, 1, suffix)

\* ---------------------------------------------------------------------------
\* helper harness: the helpers applied to inputs drawn in Init
\* ---------------------------------------------------------------------------

Mantissas == {0, 1, 2, 100, 512, 999, 1023, 1024, 1025, 1152, 2047, 65536,
              1048063, 1048575, 1253656, 1073741823, 1253656678, 2147483647}

ByteCounts == {[m |-> m, e |-> e] : m \in Mantissas, e \in 0..MaxShift}

EnvNames == {"CONDA_DEFAULT_ENV", "UNSET_VAR_XYZ", "SET_VAR"}

EnvValues == {"", "foo", "Unknown"}

Environs(names) == UNION {[S -> EnvValues] : S \in SUBSET names}

IdleShowEnv ==
    /\ raised = NoExc
    /\ show_nvidia_smi = FALSE
    /\ sys_platform = "linux"
    /\ importable = {}
    /\ rep = << >>
    /\ opt_mods = << >>
    /\ have_nvidia_smi = FALSE
    /\ result = NoResult
    /\ smi = ""
    /\ gpu_total_mem = << >>
    /\ nvidia_gpu_cnt = 0
    /\ torch_gpu_cnt = 0
    /\ keylen = 0
    /\ out = << >>

showEnvVars == <<raised, show_nvidia_smi, sys_platform, importable, rep,
                 opt_mods, have_nvidia_smi, result, smi, gpu_total_mem,
                 nvidia_gpu_cnt, torch_gpu_cnt, keylen, out>>

InitSize ==
    /\ IdleShowEnv
    /\ pc = "size_call"
    /\ environ = << >>
    /\ arg \in ByteCounts
    /\ ret = None

CallGetSize ==
    /\ pc = "size_call"
    /\ ret' = get_size(arg, "B")
    /\ pc' = "size_done"
    /\ UNCHANGED <<showEnvVars, environ, arg>>

SpecSize == InitSize /\ [][CallGetSize]_vars

InitEnv ==
    /\ IdleShowEnv
    /\ pc = "env_call"
    /\ environ \in Environs(EnvNames)
    /\ arg = ""
    /\ ret = None

CallGetEnv ==
    /\ pc \in {"env_call", "env_done"}
    /\ \E name \in EnvNames :
          /\ arg' = name
          /\ ret' = Some(get_env(name))
    /\ pc' = "env_done"
    /\ UNCHANGED <<showEnvVars, environ>>

SpecEnv == InitEnv /\ [][CallGetEnv]_vars

\* ---------------------------------------------------------------------------
\* show_env (src/env.py:32-181): external collaborators
\* ---------------------------------------------------------------------------

\* a str.join over text fragments; a captured stdout is kept as the sequence
\* of its fragments (probe) or of its lines (memory query)
RECURSIVE Join(_)
Join(frags) == IF frags = << >> THEN "" ELSE Head(frags) \o Join(Tail(frags))

NotSpawned == [spawned |-> FALSE, returncode |-> -1, stdout |-> << >>]

Completed(rc, text) == [spawned |-> TRUE, returncode |-> rc, stdout |-> text]

SmiBanner == <<"NVIDIA-SMI 396.44 ", "Driver Version: ", "396.44", " |">>

SmiNoDriver == <<"NVIDIA-SMI 396.44 ", "Driver Version: ", "N/A", " |">>

\* outcomes of subprocess.run(["nvidia-smi"])
ProbeRuns ==
    {NotSpawned, Completed(1, << >>), Completed(1, SmiNoDriver),
     Completed(0, << >>), Completed(0, SmiBanner), Completed(0, SmiNoDriver)}

VersionTexts == {"396.44"}

\* re.findall(r'Driver Version: +(\d+\.\d+)', smi), cut to its first match
re_findall_driver(stdout) ==
    LET idx == {i \in 1..(Len(stdout) - 1) :
                   stdout[i] = "Driver Version: " /\ stdout[i + 1] \in VersionTexts}
    IN  IF idx = {} THEN << >>
        ELSE <<stdout[(CHOOSE i \in idx : \A j \in idx : i <= j) + 1]>>

MemTokens == {"8192", "16384", "[N/A]"}

IntLiterals == {8192, 16384}

RECURSIVE SeqsUpTo(_, _)
SeqsUpTo(S, n) ==
    IF n = 0 THEN {<< >>}
    ELSE LET shorter == SeqsUpTo(S, n - 1)
         IN  shorter \cup {Append(q, x) : q \in shorter, x \in S}

\* outcomes of subprocess.run(["nvidia-smi", "--query-gpu=memory.total", ...]);
\* stdout is the sequence output.strip().split('\n') yields
QueryRuns ==
    {NotSpawned, Completed(1, << >>)}
        \cup {Completed(0, lines) : lines \in SeqsUpTo(MemTokens, MaxMemLines)}

\* int(x): << >> stands for ValueError
py_int(x) ==
    IF \E n \in IntLiterals : ToString(n) = x
    THEN Some(CHOOSE n \in IntLiterals : ToString(n) = x)
    ELSE None

\* [int(x) for x in lines]: << >> stands for ValueError, else <<the list>>
RECURSIVE py_int_list(_)
py_int_list(lines) ==
    IF lines = << >> THEN Some(<< >>)
    ELSE LET h == py_int(Head(lines))
             t == py_int_list(Tail(lines))
         IN  IF h = None \/ t = None THEN None
             ELSE Some(<<h[1]>> \o t[1])

\* torch.cuda.get_device_name(i)
get_device_name(i) == "GeForce GTX " \o ToString(1080 + i)

\* outcomes of the CPU-model lookup command
CpuRuns == {NotSpawned, Completed(0, <<"Model name: Xeon">>), Completed(1, << >>)}

\* platform.system()
platform_system ==
    IF sys_platform = "linux" THEN "Linux"
    ELSE IF sys_platform = "darwin" THEN "Darwin"
    ELSE IF sys_platform = "win32" THEN "Windows"
    ELSE "FreeBSD"

Platforms == {"linux", "darwin", "win32", "freebsd13"}

\* import_module(name): the module, or ModuleNotFoundError
import_module(name) ==
    IF name \in importable
    THEN [exc |-> NoExc, module |-> Some(name)]
    ELSE [exc |-> "ModuleNotFoundError", module |-> None]

\* ' '.join(distro.linux_distribution())
DistroName == "Ubuntu 20.04 focal"

\* platform.uname().version
UnameVersion == "#42-Ubuntu SMP"

\* psutil.cpu_percent(percpu=True, interval=1)
CpuPercents == <<"3.0", "97.5">>

\* psutil.virtual_memory().total
MemTotals == {[m |-> 16, e |-> 3], [m |-> 1, e |-> 6]}

\* ---------------------------------------------------------------------------
\* show_env (src/env.py:32-181): steps
\* ---------------------------------------------------------------------------

Init ==
    /\ pc = "software"
    /\ raised = NoExc
    /\ show_nvidia_smi \in BOOLEAN
    /\ sys_platform \in Platforms
    /\ importable \in SUBSET {"pip", "distro"}
    /\ environ \in Environs({"CONDA_DEFAULT_ENV"})
    /\ rep = << >>
    /\ opt_mods = << >>
    /\ have_nvidia_smi = FALSE
    /\ result = NoResult
    /\ smi = ""
    /\ gpu_total_mem = << >>
    /\ nvidia_gpu_cnt = 0
    /\ torch_gpu_cnt = 0
    /\ keylen = 0
    /\ out = << >>
    /\ arg = ""
    /\ ret = None

\* subprocess.run returned: the local result is bound to the completed process
Bind(run) == [returncode |-> run.returncode, stdout |-> run.stdout]

\* lines 57 and 90: result.returncode == 0 and result.stdout
RunSucceeded(run) == run.spawned /\ run.returncode = 0 /\ run.stdout # << >>

\* lines 35-76: software section and the probe of the diagnostic tool
Software ==
    /\ pc = "software"
    /\ raised = NoExc
    /\ \E run \in ProbeRuns, cuda \in BOOLEAN, cudnn \in BOOLEAN :
          LET info   == IF "pip" \in importable THEN "21.1.2" ELSE "No pip install"
              have   == RunSucceeded(run)
              match  == IF have THEN re_findall_driver(run.stdout) ELSE << >>
              avail  == IF cuda THEN "available" ELSE "**Not available** "
              enable == IF cudnn THEN "enabled" ELSE "**Not enabled** "
          IN  /\ cuda \/ ~cudnn
              /\ have_nvidia_smi' = have
              /\ result' = IF run.spawned THEN Bind(run) ELSE result
              /\ smi' = IF have THEN Join(run.stdout) ELSE smi
              /\ rep' = rep
                    \o << <<"=== Software ===", None>>,
                          <<"python", Some("3.8.10")>>,
                          <<"torch", Some("1.9.0")>>,
                          <<"Pip", Some(info)>> >>
                    \o (IF match # << >>
                        THEN << <<"nvidia driver", Some(match[1])>> >> ELSE << >>)
                    \o << <<"torch cuda", Some("11.1 / is " \o avail)>> >>
                    \o (IF cuda
                        THEN << <<"torch cudnn", Some("8005 / is " \o enable)>> >>
                        ELSE << >>)
    /\ pc' = "query"
    /\ UNCHANGED <<raised, show_nvidia_smi, sys_platform, importable, environ,
                   opt_mods, gpu_total_mem, nvidia_gpu_cnt, torch_gpu_cnt,
                   keylen, out, arg, ret>>

\* lines 78-96: hardware header and the per-device memory query
QueryMemory ==
    /\ pc = "query"
    /\ raised = NoExc
    /\ \E run \in (IF have_nvidia_smi THEN QueryRuns ELSE {NotSpawned}) :
          LET header == Append(rep, <<"\n=== Hardware ===", None>>)
              parsed == IF RunSucceeded(run) THEN py_int_list(run.stdout)
                        ELSE Some(gpu_total_mem)
              cnt    == IF RunSucceeded(run) /\ parsed # None
                        THEN Len(parsed[1]) ELSE nvidia_gpu_cnt
          IN  /\ result' = IF run.spawned THEN Bind(run) ELSE result
              /\ out' = IF have_nvidia_smi /\ ~run.spawned
                        THEN Append(out, "have nvidia-smi, but failed to query it")
                        ELSE out
              /\ IF parsed = None
                 THEN /\ raised' = "ValueError"
                      /\ rep' = header
                      /\ pc' = pc
                      /\ UNCHANGED <<gpu_total_mem, nvidia_gpu_cnt>>
                 ELSE /\ raised' = raised
                      /\ gpu_total_mem' = parsed[1]
                      /\ nvidia_gpu_cnt' = cnt
                      /\ rep' = IF cnt # 0
                                THEN Append(header, <<"nvidia gpus", Some(ToString(cnt))>>)
                                ELSE header
                      /\ pc' = "devices"
    /\ UNCHANGED <<show_nvidia_smi, sys_platform, importable, environ, opt_mods,
                   have_nvidia_smi, smi, torch_gpu_cnt, keylen, arg, ret>>

\* lines 102-103: the per-device loop; it stops at the first index the memory
\* list does not have
RECURSIVE GpuLoop(_, _, _, _)
GpuLoop(i, t, mem, acc) ==
    IF i = t THEN [entries |-> acc, exc |-> NoExc]
    ELSE IF mem # << >> /\ i + 1 > Len(mem)
         THEN [entries |-> acc, exc |-> "IndexError"]
         ELSE GpuLoop(i + 1, t, mem,
                  Append(acc, <<"  - gpu" \o ToString(i),
                                Some((IF mem # << >>
                                      THEN ToString(mem[i + 1]) \o "MB | "
                                      ELSE "") \o get_device_name(i))>>))

DeviceReport_swapped(t, mem, cnt) ==
    IF t # 0
    THEN GpuLoop(0, t, mem, << <<"torch devices", Some(ToString(t))>> >>)
    ELSE IF cnt = 0
         THEN [entries |-> << <<"Have " \o ToString(cnt)
                                 \o " GPU(s), but torch can't use them (check nvidia driver)",
                                 None>> >>,
               exc |-> NoExc]
         ELSE [entries |-> << <<"No GPUs available", None>> >>, exc |-> NoExc]

\* lines 99-108: what the device step appends, and the exception it ends in
DeviceReport(t, mem, cnt) ==
    IF t # 0
    THEN GpuLoop(0, t, mem, << <<"torch devices", Some(ToString(t))>> >>)
    ELSE IF cnt # 0
         THEN [entries |-> << <<"Have " \o ToString(cnt)
                                 \o " GPU(s), but torch can't use them (check nvidia driver)",
                                 None>> >>,
               exc |-> NoExc]
         ELSE [entries |-> << <<"No GPUs available", None>> >>, exc |-> NoExc]

\* lines 98-108: device count of the framework and the device entries
Devices ==
    /\ pc = "devices"
    /\ raised = NoExc
    /\ \E t \in 0..MaxDev :
          LET r == DeviceReport(t, gpu_total_mem, nvidia_gpu_cnt)
          IN  /\ torch_gpu_cnt' = t
              /\ rep' = rep \o r.entries
              /\ raised' = r.exc
              /\ pc' = IF r.exc = NoExc THEN "cpu" ELSE pc
    /\ UNCHANGED <<show_nvidia_smi, sys_platform, importable, environ, opt_mods,
                   have_nvidia_smi, result, smi, gpu_total_mem, nvidia_gpu_cnt,
                   keylen, out, arg, ret>>

\* lines 113-118: the CPU Name entry, the text the child process writes to the
\* inherited standard output, and the exception of the lookup
CpuName(run) ==
    IF sys_platform = "darwin"
    THEN IF ~run.spawned
         THEN [entries |-> << >>, printed |-> << >>, exc |-> "FileNotFoundError"]
         ELSE IF run.returncode # 0
         THEN [entries |-> << >>, printed |-> << >>, exc |-> "CalledProcessError"]
         ELSE [entries |-> << <<"CPU Name", Some(Join(run.stdout))>> >>,
               printed |-> << >>, exc |-> NoExc]
    ELSE IF sys_platform \in {"linux", "win32"}
    THEN IF ~run.spawned
         THEN [entries |-> << >>, printed |-> << >>, exc |-> "FileNotFoundError"]
         ELSE [entries |-> << <<"CPU Name", Some(ToString(run.returncode))>> >>,
               printed |-> run.stdout, exc |-> NoExc]
    ELSE [entries |-> << >>, printed |-> << >>, exc |-> NoExc]

\* lines 125-126: one value-less entry per core
CoreEntries ==
    [i \in 1..Len(CpuPercents) |->
        <<"Core " \o ToString(i - 1) \o ": " \o CpuPercents[i] \o "%", None>>]

\* lines 110-127: machine, processor and CPU section
CpuInfo ==
    /\ pc = "cpu"
    /\ raised = NoExc
    /\ \E run \in (IF sys_platform \in {"darwin", "linux", "win32"}
                   THEN CpuRuns ELSE {NotSpawned}) :
          LET head == rep \o << <<"machine", Some("x86_64")>>,
                                <<"processor", Some("x86_64")>>,
                                <<"==CPU Info==", None>> >>
              name == CpuName(run)
          IN  /\ raised' = name.exc
              /\ out' = out \o name.printed
              /\ IF name.exc # NoExc
                 THEN /\ rep' = head
                      /\ pc' = pc
                 ELSE /\ rep' = head \o name.entries
                            \o << <<"Physical cores:", Some("1")>>,
                                  <<"Total cores:", Some(ToString(Len(CpuPercents)))>>,
                                  <<"CPU Usage Per Core:", None>> >>
                            \o CoreEntries
                            \o << <<"Total CPU Usage: 50.2%", None>> >>
                      /\ pc' = "memory"
    /\ UNCHANGED <<show_nvidia_smi, sys_platform, importable, environ, opt_mods,
                   have_nvidia_smi, result, smi, gpu_total_mem, nvidia_gpu_cnt,
                   torch_gpu_cnt, keylen, arg, ret>>

\* lines 129-141: memory and swap sections
MemoryInfo ==
    /\ pc = "memory"
    /\ raised = NoExc
    /\ \E total \in MemTotals :
          rep' = rep
              \o << <<"==Memory Info==", None>>,
                    <<"Total:", get_size(total, "B")>>,
                    <<"Available:", get_size([m |-> 1253656678, e |-> 0], "B")>>,
                    <<"Used:", get_size([m |-> 1253656, e |-> 0], "B")>>,
                    <<"Percentage: %", Some("42.5")>>,
                    <<"=SWAP=", None>>,
                    <<"Total:", get_size([m |-> 2, e |-> 3], "B")>>,
                    <<"Free:", get_size([m |-> 2047, e |-> 2], "B")>>,
                    <<"Used:", get_size([m |-> 1, e |-> 2], "B")>>,
                    <<"Percentage: 0.1%", None>> >>
    /\ pc' = "environment"
    /\ UNCHANGED <<raised, show_nvidia_smi, sys_platform, importable, environ,
                   opt_mods, have_nvidia_smi, result, smi, gpu_total_mem,
                   nvidia_gpu_cnt, torch_gpu_cnt, keylen, out, arg, ret>>

\* line 150: truth value of what import_module returned
Truthy(module) == module # None

\* lines 143-160: environment section
EnvironmentInfo ==
    /\ pc = "environment"
    /\ raised = NoExc
    /\ LET head   == rep \o << <<"\n=== Environment ===", None>>,
                               <<"platform", Some("Linux-5.4.0-x86_64-with-glibc2.29")>>,
                               <<"Node Name", Some("devbox")>> >>
           linux  == platform_system = "Linux"
           distro == import_module("distro")
           full   == linux /\ Truthy(distro.module)
           tail   == << <<"conda env", Some(get_env("CONDA_DEFAULT_ENV"))>>,
                        <<"python", Some("/usr/bin/python3")>>,
                        <<"sys.path", Some("/usr/lib/python38.zip\n/usr/lib/python3.8")>> >>
       IN  IF linux /\ distro.exc # NoExc
           THEN /\ raised' = distro.exc
                /\ rep' = head
                /\ pc' = pc
                /\ UNCHANGED opt_mods
           ELSE /\ raised' = raised
                /\ opt_mods' = IF linux /\ ~full THEN Append(opt_mods, "distro")
                               ELSE opt_mods
                /\ rep' = head
                      \o (IF full
                          THEN << <<"distro", Some(DistroName)>> >>
                          ELSE IF linux
                          THEN << <<"distro", Some(UnameVersion)>> >>
                          ELSE << >>)
                      \o tail
                /\ pc' = "render"
    /\ UNCHANGED <<show_nvidia_smi, sys_platform, importable, environ,
                   have_nvidia_smi, result, smi, gpu_total_mem, nvidia_gpu_cnt,
                   torch_gpu_cnt, keylen, out, arg, ret>>

\* ---------------------------------------------------------------------------
\* show_env (src/env.py:162-181): rendering
\* ---------------------------------------------------------------------------

OpenFence == "\n\n'''text"

CloseFence == "'''\n"

UsageNote == "Please make sure to include opening/closing ''' when you paste into forums/github to make the reports appear formatted as code sections.\n"

NoSmiMessage == "no nvidia-smi is found"

NoGpuMessage == "no supported gpus found on this system"

SetMax(S) == CHOOSE x \in S : \A y \in S : y <= x

max_label_all(r) == SetMax({Len(r[i][1]) : i \in 1..Len(r)})

\* line 164: max([len(e[0]) for e in rep if e[1] is not None])
max_label(r) == SetMax({Len(r[i][1]) : i \in {j \in 1..Len(r) : r[j][2] # None}})

\* f"{label:{width}}": left-justified, filled with spaces, never cut
RECURSIVE FormatField(_, _)
FormatField(label, width) ==
    IF Len(label) >= width THEN label ELSE FormatField(label \o " ", width)

\* line 166: print of two arguments, joined by one space
FormatEntry(e, width) ==
    FormatField(e[1], width) \o " " \o (IF e[2] # None THEN ": " \o e[2][1] ELSE "")

\* lines 168-172: raw output of the probe, or the fallback message
Diagnostics(have, show, text, t) ==
    IF have THEN (IF show THEN <<"\n" \o text>> ELSE << >>)
    ELSE IF t # 0 THEN <<NoSmiMessage>> ELSE <<NoGpuMessage>>

\* lines 178-181
InstallNote(mods) ==
    IF mods # << >>
    THEN <<"Optional package(s) to enhance the diagnostics can be installed with:",
           "pip install " \o Join([i \in 1..Len(mods) |->
                                      IF i = 1 THEN mods[i] ELSE " " \o mods[i]]),
           "Once installed, re-run this utility to get the additional information">>
    ELSE << >>

Printed_noteFirst(r, width, have, show, text, t, mods) ==
    <<OpenFence>>
        \o [i \in 1..Len(r) |-> FormatEntry(r[i], width)]
        \o <<CloseFence, UsageNote>>
        \o Diagnostics(have, show, text, t)
        \o InstallNote(mods)

\* lines 162-181: the print calls of the render phase, in order
Printed(r, width, have, show, text, t, mods) ==
    <<OpenFence>>
        \o [i \in 1..Len(r) |-> FormatEntry(r[i], width)]
        \o Diagnostics(have, show, text, t)
        \o <<CloseFence, UsageNote>>
        \o InstallNote(mods)

\* lines 162-181: rendering of the report
Render ==
    /\ pc = "render"
    /\ raised = NoExc
    /\ keylen' = max_label(rep)
    /\ out' = out \o Printed(rep, keylen', have_nvidia_smi, show_nvidia_smi, smi,
                             torch_gpu_cnt, opt_mods)
    /\ pc' = "done"
    /\ UNCHANGED <<raised, show_nvidia_smi, sys_platform, importable, environ,
                   rep, opt_mods, have_nvidia_smi, result, smi, gpu_total_mem,
                   nvidia_gpu_cnt, torch_gpu_cnt, arg, ret>>

Next ==
    \/ Software
    \/ QueryMemory
    \/ Devices
    \/ CpuInfo
    \/ MemoryInfo
    \/ EnvironmentInfo
    \/ Render

Spec == Init /\ [][Next]_vars

\* ---------------------------------------------------------------------------
\* properties
\* ---------------------------------------------------------------------------

StepRank ==
    [software |-> 1, query |-> 2, devices |-> 3, cpu |-> 4, memory |-> 5,
     environment |-> 6, render |-> 7, done |-> 8]

\* the step has run, to its end or to the exception it raised
Acted(step) ==
    StepRank[pc] > StepRank[step] \/ (pc = step /\ raised # NoExc)

\* show_env has returned or has been left by an exception
Ended == pc = "done" \/ raised # NoExc

Count(seq, x) == Cardinality({i \in 1..Len(seq) : seq[i] = x})

Labels == {rep[i][1] : i \in 1..Len(rep)}

RECURSIVE Spaces(_)
Spaces(n) == IF n <= 0 THEN "" ELSE " " \o Spaces(n - 1)

\* position in out of the opening fence marker (0 when it was not printed)
FenceAt ==
    IF \E i \in 1..Len(out) : out[i] = OpenFence
    THEN CHOOSE i \in 1..Len(out) :
            out[i] = OpenFence /\ \A j \in 1..(i - 1) : out[j] # OpenFence
    ELSE 0

\* C1: whatever the external queries answer, show_env is never left by an
\* uncaught exception, and when it ends it has printed the opening fence,
\* every entry of the report, the closing fence and the usage note.
C1_AlwaysRenders ==
    /\ raised = NoExc
    /\ pc = "done" =>
          /\ Count(out, OpenFence) = 1
          /\ \A i \in 1..Len(rep) : out[FenceAt + i] = FormatEntry(rep[i], keylen)
          /\ Count(out, CloseFence) = 1
          /\ Count(out, UsageNote) = 1

\* the first unit at which the byte count, divided by 1024 once per preceding
\* unit, is below 1024
FirstUnitBelow(bytes) ==
    LET S == {i \in 1..Len(Units) :
                 LessThanFactor([m |-> bytes.m, e |-> bytes.e - (i - 1)])}
    IN  IF S = {} THEN None
        ELSE Some(Units[CHOOSE i \in S : \A j \in S : i <= j])

IsSizeString(s, unit) ==
    \E n \in 0..factor, f \in 0..99 :
        s = ToString(n) \o "." \o TwoDigits(f) \o unit \o "B"

\* C2: for every byte count b >= 0, also b >= 1024^6, get_size returns a
\* string <number>.<2 digits><unit>B whose unit is the first of "", K, M, G,
\* T, P at which the scaled count is below 1024; it never returns a non-string.
C2_SizeIsString ==
    pc = "size_done" =>
        /\ ret # None
        /\ FirstUnitBelow(arg) # None
        /\ IsSizeString(ret[1], FirstUnitBelow(arg)[1])

DeviceLabel(i) == "  - gpu" \o ToString(i)

DeviceLabels == {DeviceLabel(i) : i \in 0..(MaxDev + MaxMemLines)}

IsDeviceLine(e) == e[1] \in DeviceLabels

DeviceLines == SelectSeq(rep, IsDeviceLine)

\* C3: when the framework reports n > 0 devices, whatever the length of the
\* memory list, the report has exactly the n device lines gpu0 .. gpu(n-1) in
\* index order, line i with the name of device i, prefixed by the i-th memory
\* value when there is one.
C3_OneLinePerDevice ==
    (Acted("devices") /\ torch_gpu_cnt > 0) =>
        DeviceLines =
            [i \in 1..torch_gpu_cnt |->
                <<DeviceLabel(i - 1),
                  Some((IF i <= Len(gpu_total_mem)
                        THEN ToString(gpu_total_mem[i]) \o "MB | " ELSE "")
                       \o get_device_name(i - 1))>>]

UnprefixedDeviceLines ==
    \A i \in 1..Len(DeviceLines) :
        DeviceLines[i][2] = Some(get_device_name(i - 1))

\* C4: at the end of a run in which the diagnostic tool was unavailable the
\* report has no 'nvidia gpus' entry and no memory prefix on a device line, and
\* exactly one fallback message was printed, 'no nvidia-smi is found' when the
\* framework reports a device and 'no supported gpus found on this system'
\* otherwise; with the tool available neither message was printed.
C4_FallbackMessage ==
    Ended =>
        IF ~have_nvidia_smi
        THEN /\ "nvidia gpus" \notin Labels
             /\ UnprefixedDeviceLines
             /\ Count(out, NoSmiMessage) = (IF torch_gpu_cnt > 0 THEN 1 ELSE 0)
             /\ Count(out, NoGpuMessage) = (IF torch_gpu_cnt > 0 THEN 0 ELSE 1)
        ELSE /\ Count(out, NoSmiMessage) = 0
             /\ Count(out, NoGpuMessage) = 0

Present == {i \in 1..Len(rep) : rep[i][2] # None}

\* C5: once the report is rendered, the column width is the largest label
\* length among the entries that have a value, every such entry is printed as
\* its label filled to that width followed by ': value', every entry without
\* a value is printed as its label with no ': value' suffix, and the entries
\* are printed in the order of rep.
C5_Alignment ==
    pc = "done" =>
        /\ \A i \in Present : Len(rep[i][1]) <= keylen
        /\ \E i \in Present : Len(rep[i][1]) = keylen
        /\ \A i \in 1..Len(rep) :
              IF i \in Present
              THEN out[FenceAt + i] =
                       rep[i][1] \o Spaces(keylen - Len(rep[i][1]))
                           \o " : " \o rep[i][2][1]
              ELSE \E n \in 0..(keylen + 1) :
                       out[FenceAt + i] = rep[i][1] \o Spaces(n)

C5_Witness ==
    /\ pc = "done"
    /\ \E i \in 1..Len(rep) : i \notin Present /\ Len(rep[i][1]) > keylen
    /\ \E i \in Present : Len(rep[i][1]) < keylen

\* C6 as stated: the render phase prints the opening fence, the entries, the
\* closing fence and the usage note, and only then the raw output of the tool
\* or the fallback message: between the fence markers there are only entries.
C6_NoteBeforeDiagnostics ==
    pc = "done" =>
        /\ out[FenceAt + Len(rep) + 1] = CloseFence
        /\ out[FenceAt + Len(rep) + 2] = UsageNote

\* what is printed besides the entries, by the availability of the tool
ExpectedDiagnostics ==
    IF have_nvidia_smi /\ show_nvidia_smi THEN <<"\n" \o smi>>
    ELSE IF have_nvidia_smi THEN << >>
    ELSE IF torch_gpu_cnt > 0 THEN <<NoSmiMessage>>
    ELSE <<NoGpuMessage>>

\* C6 as amended: nothing of the render phase is printed before the last step,
\* and that step prints the opening fence, the entries, then the raw output of
\* the tool (tool available and flag set) or the fallback message (tool
\* unavailable), then the closing fence, then the usage note.
C6_DiagnosticsInsideFence ==
    /\ pc # "done" => (FenceAt = 0 /\ Count(out, CloseFence) = 0)
    /\ pc = "done" =>
          LET d == ExpectedDiagnostics
              c == FenceAt + Len(rep) + Len(d) + 1
          IN  /\ FenceAt > 0
              /\ \A i \in 1..Len(rep) : out[FenceAt + i] = FormatEntry(rep[i], keylen)
              /\ \A i \in 1..Len(d) : out[FenceAt + Len(rep) + i] = d[i]
              /\ out[c] = CloseFence
              /\ out[c + 1] = UsageNote
              /\ Count(out, OpenFence) = 1
              /\ Count(out, CloseFence) = 1

C6_Witness ==
    /\ pc = "done"
    /\ have_nvidia_smi
    /\ show_nvidia_smi
    /\ out[FenceAt + Len(rep) + 1] = "\n" \o smi
    /\ out[FenceAt + Len(rep) + 2] = CloseFence

\* C7: get_env(name) returns the value of the variable when it is set to a
\* non-empty string and "Unknown" when it is unset or set to the empty string,
\* and a call leaves the environment as it was.
C7_GetEnv ==
    [][/\ environ' = environ
       /\ ret' = Some(IF arg' \in DOMAIN environ /\ environ[arg'] # ""
                      THEN environ[arg'] ELSE "Unknown")]_vars

C7_Witness ==
    /\ pc = "env_done"
    /\ arg \in DOMAIN environ
    /\ environ[arg] = ""
    /\ ret = Some("Unknown")
    /\ \E n \in DOMAIN environ : environ[n] = "foo"

QueryFailedMessage == "have nvidia-smi, but failed to query it"

\* the memory query ran to completion with exit code 0 and some output
QuerySucceeded ==
    /\ Acted("query")
    /\ have_nvidia_smi
    /\ Count(out, QueryFailedMessage) = 0
    /\ result.returncode = 0
    /\ result.stdout # << >>

\* C8: when the memory query succeeds but a line of its output is not an
\* integer, show_env leaves the memory list empty and the device count of the
\* tool 0, and goes on with the remaining steps.
C8_UnparsableQuery ==
    (QuerySucceeded /\ \E i \in 1..Len(result.stdout) : py_int(result.stdout[i]) = None) =>
        /\ gpu_total_mem = << >>
        /\ nvidia_gpu_cnt = 0
        /\ ~(pc = "query" /\ raised # NoExc)

\* C9: on Linux without the distro module, show_env records a 'distro' entry
\* with the coarser OS version, adds 'distro' to the missing optional modules
\* and, after the report, prints the install instruction and the re-run
\* suggestion; with the module present the instruction is not printed.
C9_MissingDistro ==
    (platform_system = "Linux" /\ Acted("environment")) =>
        IF "distro" \in importable
        THEN Count(out, "pip install distro") = 0
        ELSE /\ \E i \in 1..Len(rep) : rep[i] = <<"distro", Some(UnameVersion)>>
             /\ \E i \in 1..Len(opt_mods) : opt_mods[i] = "distro"
             /\ pc = "done" =>
                   /\ Count(out, "pip install distro") = 1
                   /\ Count(out, "Once installed, re-run this utility to get the additional information") = 1

WarningLabel(m) ==
    "Have " \o ToString(m) \o " GPU(s), but torch can't use them (check nvidia driver)"

HasDeviceEntries == "torch devices" \in Labels /\ Len(DeviceLines) > 0

HasWarning(m) == \E i \in 1..Len(rep) : rep[i] = <<WarningLabel(m), None>>

HasAnyWarning == \E m \in 0..(MaxMemLines + 1) : WarningLabel(m) \in Labels

HasNoGpus == "No GPUs available" \in Labels

\* C10: for the device count t of the framework and the number m of memory
\* values parsed from the tool, the hardware section holds exactly one of:
\* device entries when t > 0; the warning 'Have m GPU(s), but torch can't use
\* them' when t = 0 and m > 0; 'No GPUs available' when t = 0 and m = 0.
C10_ExclusiveOutcome ==
    Acted("devices") =>
        LET t == torch_gpu_cnt
            m == Len(gpu_total_mem)
        IN  /\ t > 0 => (HasDeviceEntries /\ ~HasAnyWarning /\ ~HasNoGpus)
            /\ (t = 0 /\ m > 0) => (HasWarning(m) /\ ~HasDeviceEntries /\ ~HasNoGpus
                                    /\ WarningLabel(0) \notin Labels)
            /\ (t = 0 /\ m = 0) => (HasNoGpus /\ ~HasDeviceEntries /\ ~HasAnyWarning)

C10_Witness ==
    /\ Acted("devices")
    /\ torch_gpu_cnt = 0
    /\ Len(gpu_total_mem) > 0
    /\ HasWarning(Len(gpu_total_mem))

====
